---- MODULE Spec2Model ----
(***************************************************************************)
(* A model of the binexplore examples: the Vector type of vector.h with    *)
(* its operator+= and operator+, the demonstration program of main.cc and  *)
(* the matrix product mul of mmul.cc.                                      *)
(*                                                                         *)
(* Arrays are 0-based in the source and sequences 1-based here: the        *)
(* element data_[i] is At(s, ix) == s[ix + 1].  Floats are modelled by the   *)
(* integers of magnitude at most 2^24, on which binary32 addition and      *)
(* multiplication are exact (FloatExact is checked to hold throughout).    *)
(***************************************************************************)
EXTENDS Integers, Sequences, FiniteSets, TLC

\* ------------------------------------------------------------------ bounds

\* Longest vector the harness builds.
MaxLen == 3

\* Element values the harness draws from.
Vals == {1, 2}

\* What a read of storage the program does not own may yield: any value the
\* model knows (the crash is a separate outcome of the reading action).
Garbage == Vals \cup {0}

\* ------------------------------------------------------- program variables

VARIABLES
  script,     \* which program runs: "pluseq", "chain", "plus", "comm", "main"
  pc,         \* position of the running program
  data,       \* data_ of every Vector object: [Objs -> Seq(Int)]
  live,       \* the Vector objects whose lifetime has begun and not ended
  arg0,       \* the operands as constructed, before any operation
  this,       \* operator+=: the object it was called on
  rhsV,       \* operator+=: its parameter rhs
  iV,         \* operator+=: the loop index i
  ref,        \* the reference the last operator+= returned
  stage,      \* how many operator calls the program has started
  oob,        \* whether the running operator+= has read rhs out of range
  entryThis,  \* data_ of *this when the running operator+= was entered
  entryRhs,   \* data_ of rhs when the running operator+= was entered
  extended,   \* build: range-for keeps the temporaries of its range-init alive
  spanLen,    \* main: size of the span the range-for iterates over
  p,          \* main: position of the range-for in the span
  out,        \* characters written to standard output
  exitCode    \* exit status of main; NoExit until main returns

vvars == <<script, pc, data, live, arg0, this, rhsV, iV, ref, stage, oob,
           entryThis, entryRhs, extended, spanLen, p, out, exitCode>>

VARIABLES
  mpc,        \* mul: position in the function
  lhs,        \* mul: its parameter lhs
  rhs,        \* mul: its parameter rhs
  result,     \* mul: its local result
  i,          \* mul: loop index i
  j,          \* mul: loop index j
  k,          \* mul: loop index k
  sum,        \* mul: the local sum
  ret,        \* mul: the returned Matrix; NoMatrix until it returns
  acc,        \* the element accesses the last step made
  writes,     \* how many times mul has called result.set, per coordinate
  arg1        \* lhs and rhs as passed to mul

mvars == <<mpc, lhs, rhs, result, i, j, k, sum, ret, acc, writes, arg1>>

VARIABLES
  apc,        \* the product harness: position
  mA,         \* the product harness: the matrices A, B, C
  mB,
  mC,
  prodAB,     \* mul(A, B)
  prodAB_C,   \* mul(mul(A, B), C)
  prodBC,     \* mul(B, C)
  prodA_BC    \* mul(A, mul(B, C))

avars == <<apc, mA, mB, mC, prodAB, prodAB_C, prodBC, prodA_BC>>

vars == <<vvars, mvars, avars>>

\* ------------------------------------------------------------------ floats

\* binary32 represents every integer of magnitude up to 2^24 exactly.
ExactRange == -(2^24) .. 2^24

\* A slip: the operands subtracted
FSub(x, y) == x - y

\* float + float (vector.h:14, mmul.cc:26)
FAdd(x, y) == x + y

\* float * float (mmul.cc:26)
FMul(x, y) == x * y

\* ------------------------------------------------------------------ Vector

Objs == {"v1", "v2", "v3", "lhs", "tmp", "tmp2"}

NoObj == "none"

NoExit == "running"

\* data_[i] of a 0-based array held as a sequence
At(s, ix) == s[ix + 1]

\* All vectors of length 0..n over Vals
VecsUpTo(n) == UNION {[1..l -> Vals] : l \in 0..n}

\* Vector(std::initializer_list<float>): data_ is the literal list
VectorCtor(init) == init

\* The loop condition of operator+=: i < data_.size()
PlusEqContinue(sizeThis, ix) == ix < sizeThis

\* A slip: the element after the one wanted
PlusEqRhsIndexNext(ix) == ix + 1

\* The index operator+= reads rhs.data_ at, for the loop index i
PlusEqRhsIndex(ix) == ix

\* What the read rhs.data_[k] may yield: the element when k is in range, and
\* otherwise (undefined behaviour) any value
RhsRead(r, kx) == IF kx < Len(r) THEN {At(r, kx)} ELSE Garbage

\* A slip: = written for +=
PlusEqElemAssign(d, ix, x) == [d EXCEPT ![ix + 1] = x]

\* data_[i] += x
PlusEqElem(d, ix, x) == [d EXCEPT ![ix + 1] = FAdd(d[ix + 1], x)]

\* A slip: lhs taken by reference, so that it is the argument itself
PlusLhsByRef(a) == a

\* The by-value parameter lhs of operator+: a fresh object, a copy of the
\* argument
PlusLhs(a) == "lhs"

\* Where the value operator+ returns is held
PlusDest(st) == IF st = 2 THEN "tmp2" ELSE "tmp"

\* Enter operator+= on object t with parameter r
EnterPlusEq(t, r, d) ==
  /\ this' = t
  /\ rhsV' = r
  /\ iV' = 0
  /\ oob' = FALSE
  /\ entryThis' = d[t]
  /\ entryRhs' = d[r]
  /\ pc' = "loop"

\* The harness statement  v1 += v2
CallPlusEq ==
  /\ pc = "start"
  /\ script \in {"pluseq", "chain"}
  /\ EnterPlusEq("v1", "v2", data)
  /\ stage' = 1
  /\ UNCHANGED <<script, data, live, arg0, ref, extended, spanLen, p, out, exitCode,
                 mvars, avars>>

\* The second call of  (v1 += v2) += v3: on the reference the first returned
CallPlusEqChained ==
  /\ pc = "chain2"
  /\ EnterPlusEq(ref, "v3", data)
  /\ stage' = 2
  /\ UNCHANGED <<script, data, live, arg0, ref, extended, spanLen, p, out, exitCode,
                 mvars, avars>>

\* Operands of the stage-th operator+ of the program: v1 + v2, then v2 + v1
PlusArgs(st) == IF st = 2 THEN <<"v2", "v1">> ELSE <<"v1", "v2">>

\* operator+(Vector lhs, const Vector &rhs): copy the argument into lhs and
\* run  lhs += rhs
CallPlus ==
  /\ pc \in {"start", "start2"}
  /\ script \in {"plus", "comm", "main"}
  /\ LET st == IF pc = "start2" THEN 2 ELSE 1
         a  == PlusArgs(st)[1]
         b  == PlusArgs(st)[2]
         l  == PlusLhs(a)
         d  == [data EXCEPT ![l] = data[a]]
     IN  /\ data' = d
         /\ live' = live \cup {l}
         /\ stage' = st
         /\ EnterPlusEq(l, b, d)
  /\ UNCHANGED <<script, arg0, ref, extended, spanLen, p, out, exitCode,
                 mvars, avars>>

\* One iteration of the loop of operator+=:  data_[i] += rhs.data_[i]
PlusEqStep ==
  /\ pc = "loop"
  /\ PlusEqContinue(Len(data[this]), iV)
  /\ LET kx == PlusEqRhsIndex(iV)
     IN  /\ oob' = (oob \/ kx >= Len(data[rhsV]))
         /\ \/ /\ \E x \in RhsRead(data[rhsV], kx) :
                    data' = [data EXCEPT ![this] = PlusEqElem(data[this], iV, x)]
               /\ iV' = iV + 1
               /\ pc' = pc
            \/ /\ kx >= Len(data[rhsV])
               /\ pc' = "crashed"
               /\ UNCHANGED <<data, iV>>
  /\ UNCHANGED <<script, live, arg0, this, rhsV, ref, stage, entryThis, entryRhs,
                 extended, spanLen, p, out, exitCode,
                 mvars, avars>>

\* Where the program goes on after operator+= returns
AfterPlusEq ==
  CASE script \in {"plus", "comm", "main"} -> "plus_ret"
    [] script = "chain" /\ stage = 1 -> "chain2"
    [] OTHER -> "done"

\* return *this;
PlusEqReturn ==
  /\ pc = "loop"
  /\ ~PlusEqContinue(Len(data[this]), iV)
  /\ ref' = this
  /\ pc' = AfterPlusEq
  /\ UNCHANGED <<script, data, live, arg0, this, rhsV, iV, stage, oob, entryThis,
                 entryRhs, extended, spanLen, p, out, exitCode,
                 mvars, avars>>

\* Where the program goes on after operator+ returns
AfterPlus ==
  CASE script = "main" -> "range_init"
    [] script = "comm" /\ stage = 1 -> "start2"
    [] OTHER -> "done"

\* operator+ returns: the result is copied from the referenced object and
\* the parameter lhs is destroyed
PlusReturn ==
  /\ pc = "plus_ret"
  /\ data' = [data EXCEPT ![PlusDest(stage)] = data[ref], !["lhs"] = <<>>]
  /\ live' = (live \cup {PlusDest(stage)}) \ {"lhs"}
  /\ pc' = AfterPlus
  /\ UNCHANGED <<script, arg0, this, rhsV, iV, ref, stage, oob, entryThis, entryRhs,
                 extended, spanLen, p, out, exitCode,
                 mvars, avars>>

\* -------------------------------------------------------------------- main

\* One decimal digit as a character
DigitChar(d) == <<"0", "1", "2", "3", "4", "5", "6", "7", "8", "9">>[d + 1]

RECURSIVE Digits(_)
\* The decimal digits of a natural number, most significant first
Digits(n) == IF n < 10 THEN <<DigitChar(n)>>
             ELSE Digits(n \div 10) \o <<DigitChar(n % 10)>>

\* std::cout << elem for a float holding an integer of fewer than seven
\* digits: the default format writes the digits alone
Format(x) == IF x < 0 THEN <<"-">> \o Digits(0 - x) ELSE Digits(x)

\* What main writes after each element
Separator == <<" ">>

\* What main writes for one element:  std::cout << elem << ' '
PrintOne(x) == Format(x) \o Separator

\* The range-init of the range-for: the span (v1 + v2).data().  Unless the
\* build extends the lifetime of the temporaries of a range-init, the Vector
\* v1 + v2 is destroyed here and the span is left dangling.
RangeInit ==
  /\ pc = "range_init"
  /\ spanLen' = Len(data["tmp"])
  /\ p' = 0
  /\ live' = IF extended THEN live ELSE live \ {"tmp"}
  /\ pc' = "print"
  /\ UNCHANGED <<script, data, arg0, this, rhsV, iV, ref, stage, oob, entryThis,
                 entryRhs, extended, out, exitCode,
                 mvars, avars>>

\* What reading element k through the span may yield: the element while the
\* Vector lives, and anything once it is destroyed
SpanRead(kx) == IF "tmp" \in live THEN {At(data["tmp"], kx)}
                ELSE Garbage \cup {At(data["tmp"], kx)}

\* One iteration of the range-for
PrintElem ==
  /\ pc = "print"
  /\ p < spanLen
  /\ \/ /\ \E x \in SpanRead(p) : out' = out \o PrintOne(x)
        /\ p' = p + 1
        /\ pc' = pc
     \/ /\ "tmp" \notin live
        /\ pc' = "crashed_read"
        /\ UNCHANGED <<out, p>>
  /\ UNCHANGED <<script, data, live, arg0, this, rhsV, iV, ref, stage, oob,
                 entryThis, entryRhs, extended, spanLen, exitCode,
                 mvars, avars>>

\* std::cout << '\n'
PrintNewline ==
  /\ pc = "print"
  /\ p >= spanLen
  /\ out' = out \o <<"\n">>
  /\ pc' = "exit"
  /\ UNCHANGED <<script, data, live, arg0, this, rhsV, iV, ref, stage, oob,
                 entryThis, entryRhs, extended, spanLen, p, exitCode,
                 mvars, avars>>

\* return 0;
MainReturn ==
  /\ pc = "exit"
  /\ exitCode' = 0
  /\ live' = {}
  /\ pc' = "done"
  /\ UNCHANGED <<script, data, arg0, this, rhsV, iV, ref, stage, oob, entryThis,
                 entryRhs, extended, spanLen, p, out,
                 mvars, avars>>

\* ------------------------------------------------------------------ Matrix

\* Largest height or width of a matrix the harness builds.
MaxDim == 2

\* Most cells of a matrix the harness builds.
MaxCells == 4

\* Cell values the harness draws from.
MatVals == {0, 1}

\* The coordinates of an h x w grid, zero-based
Coords(h, w) == (0 .. h - 1) \X (0 .. w - 1)

\* Matrix(height, width): a grid of the given dimensions; what its cells
\* hold before the first set is not specified, so cells holds the written
\* cells only
MatCtor(h, w) == [height |-> h, width |-> w, cells |-> [c \in {} |-> 0]]

\* get_height(), get_width()
GetHeight(M) == M.height

GetWidth(M) == M.width

\* Whether (r, c) is a coordinate of M
InBounds(M, r, c) == r >= 0 /\ r < GetHeight(M) /\ c >= 0 /\ c < GetWidth(M)

\* Whether get(r, c) is defined: in bounds, on a cell that holds a value
Defined(M, r, c) == InBounds(M, r, c) /\ <<r, c>> \in DOMAIN M.cells

\* get(r, c) where it is defined
MatAt(M, r, c) == M.cells[<<r, c>>]

\* What get(r, c) may return: the cell where defined, anything otherwise
MatGet(M, r, c) == IF Defined(M, r, c) THEN {MatAt(M, r, c)} ELSE Garbage

\* set(r, c, v) on an in-bounds coordinate
MatSet(M, r, c, v) ==
  [M EXCEPT !.cells = [x \in DOMAIN M.cells \cup {<<r, c>>} |->
                         IF x = <<r, c>> THEN v ELSE M.cells[x]]]

\* The h x w matrices with every cell drawn from S
MatricesOver(h, w, S) ==
  {[height |-> h, width |-> w, cells |-> f] : f \in [Coords(h, w) -> S]}

\* The matrix with the given rows (a non-empty sequence of equal-length rows)
FromRows(rows) ==
  [height |-> Len(rows), width |-> Len(rows[1]),
   cells |-> [c \in Coords(Len(rows), Len(rows[1])) |-> rows[c[1] + 1][c[2] + 1]]]

\* The k x k identity matrix
Identity(n) ==
  [height |-> n, width |-> n,
   cells |-> [c \in Coords(n, n) |-> IF c[1] = c[2] THEN 1 ELSE 0]]

NoMatrix == MatCtor(0, 0)

\* --------------------------------------------------------------------- mul

\* Matrix result(lhs.get_height(), rhs.get_width());
MulResult(l, r) == MatCtor(GetHeight(l), GetWidth(r))

\* The loop conditions of mul
OuterCond(l, i0) == i0 < GetHeight(l)

InnerCond(r, j0) == j0 < GetWidth(r)

\* A slip: <= written for <
DotCondInclusive(l, k0) == k0 <= GetWidth(l)

DotCond(l, k0) == k0 < GetWidth(l)

\* The coordinates mul reads lhs and rhs at, and writes result at
\* A slip: the indices of lhs exchanged
LhsCoordSwapped(i0, j0, k0) == <<k0, i0>>

LhsCoord(i0, j0, k0) == <<i0, k0>>

RhsCoord(i0, j0, k0) == <<k0, j0>>

SetCoord(i0, j0) == <<i0, j0>>

\* float sum = 0.0f;
SumInit == 0

\* A slip: = written for +=
DotAccOverwrite(s, a, b) == FMul(a, b)

\* A slip: + written for *
DotAccSum(s, a, b) == FAdd(s, FAdd(a, b))

\* sum += a * b
DotAcc(s, a, b) == FAdd(s, FMul(a, b))

\* The accesses of one  sum += lhs.get(i, k) * rhs.get(k, j)
DotAccesses(i0, j0, k0) ==
  {[mat |-> "lhs", kind |-> "get", at |-> LhsCoord(i0, j0, k0)],
   [mat |-> "rhs", kind |-> "get", at |-> RhsCoord(i0, j0, k0)]}

\* Matrix result(lhs.get_height(), rhs.get_width());  and  i = 0
MulConstruct ==
  /\ mpc = "construct"
  /\ result' = MulResult(lhs, rhs)
  /\ writes' = [c \in Coords(GetHeight(lhs), GetWidth(rhs)) |-> 0]
  /\ i' = 0
  /\ acc' = {}
  /\ mpc' = "outer"
  /\ UNCHANGED <<lhs, rhs, j, k, sum, ret, arg1, vvars, avars>>

\* for (i ...; i < lhs.get_height(); ...): enter the body with j = 0, or leave
OuterTest ==
  /\ mpc = "outer"
  /\ IF OuterCond(lhs, i)
     THEN /\ j' = 0
          /\ mpc' = "inner"
     ELSE /\ mpc' = "return"
          /\ UNCHANGED j
  /\ acc' = {}
  /\ UNCHANGED <<lhs, rhs, result, i, k, sum, ret, writes, arg1, vvars, avars>>

\* for (j ...; j < rhs.get_width(); ...): enter the body with sum = 0 and
\* k = 0, or leave and ++i
InnerTest ==
  /\ mpc = "inner"
  /\ IF InnerCond(rhs, j)
     THEN /\ sum' = SumInit
          /\ k' = 0
          /\ mpc' = "dot"
          /\ UNCHANGED i
     ELSE /\ i' = i + 1
          /\ mpc' = "outer"
          /\ UNCHANGED <<sum, k>>
  /\ acc' = {}
  /\ UNCHANGED <<lhs, rhs, result, j, ret, writes, arg1, vvars, avars>>

\* for (k ...; k < lhs.get_width(); ++k) sum += lhs.get(i, k) * rhs.get(k, j);
\* one iteration.  A get outside its matrix is undefined: it yields anything,
\* or ends the program.
DotStep ==
  /\ mpc = "dot"
  /\ DotCond(lhs, k)
  /\ LET lc == LhsCoord(i, j, k)
         rc == RhsCoord(i, j, k)
     IN  /\ acc' = DotAccesses(i, j, k)
         /\ \/ /\ \E a \in MatGet(lhs, lc[1], lc[2]), b \in MatGet(rhs, rc[1], rc[2]) :
                    sum' = DotAcc(sum, a, b)
               /\ k' = k + 1
               /\ mpc' = mpc
            \/ /\ ~(Defined(lhs, lc[1], lc[2]) /\ Defined(rhs, rc[1], rc[2]))
               /\ mpc' = "crashed"
               /\ UNCHANGED <<sum, k>>
  /\ UNCHANGED <<lhs, rhs, result, i, j, ret, writes, arg1, vvars, avars>>

\* result.set(i, j, sum);  and ++j.  A set outside result is undefined.
SetStep ==
  /\ mpc = "dot"
  /\ ~DotCond(lhs, k)
  /\ LET sc == SetCoord(i, j)
     IN  /\ acc' = {[mat |-> "result", kind |-> "set", at |-> sc]}
         /\ IF InBounds(result, sc[1], sc[2])
            THEN /\ result' = MatSet(result, sc[1], sc[2], sum)
                 /\ writes' = [writes EXCEPT ![sc] = @ + 1]
                 /\ j' = j + 1
                 /\ mpc' = "inner"
            ELSE /\ mpc' = "crashed"
                 /\ UNCHANGED <<result, writes, j>>
  /\ UNCHANGED <<lhs, rhs, i, k, sum, ret, arg1, vvars, avars>>

\* return result;
MulReturn ==
  /\ mpc = "return"
  /\ ret' = result
  /\ acc' = {}
  /\ mpc' = "done"
  /\ UNCHANGED <<lhs, rhs, result, i, j, k, sum, writes, arg1, vvars, avars>>

\* mul as a function of its arguments, for arguments on which every get is
\* defined: the three loops of the source, each a recursion on its index
RECURSIVE DotLoop(_, _, _, _, _, _)
DotLoop(l, r, i0, j0, k0, s) ==
  IF DotCond(l, k0)
  THEN LET lc == LhsCoord(i0, j0, k0)
           rc == RhsCoord(i0, j0, k0)
       IN  DotLoop(l, r, i0, j0, k0 + 1,
                   DotAcc(s, MatAt(l, lc[1], lc[2]), MatAt(r, rc[1], rc[2])))
  ELSE s

RECURSIVE InnerLoop(_, _, _, _, _)
InnerLoop(l, r, res, i0, j0) ==
  IF InnerCond(r, j0)
  THEN LET sc == SetCoord(i0, j0)
       IN  InnerLoop(l, r, MatSet(res, sc[1], sc[2], DotLoop(l, r, i0, j0, 0, SumInit)),
                     i0, j0 + 1)
  ELSE res

RECURSIVE OuterLoop(_, _, _, _)
OuterLoop(l, r, res, i0) ==
  IF OuterCond(l, i0)
  THEN OuterLoop(l, r, InnerLoop(l, r, res, i0, 0), i0 + 1)
  ELSE res

MulOp(l, r) == OuterLoop(l, r, MulResult(l, r), 0)

\* ------------------------------------------------------ products of three

\* t = mul(A, B)
ProdLeftInner ==
  /\ apc = "AB"
  /\ prodAB' = MulOp(mA, mB)
  /\ apc' = "AB_C"
  /\ UNCHANGED <<mA, mB, mC, prodAB_C, prodBC, prodA_BC, vvars, mvars>>

\* mul(t, C)
ProdLeftOuter ==
  /\ apc = "AB_C"
  /\ prodAB_C' = MulOp(prodAB, mC)
  /\ apc' = "BC"
  /\ UNCHANGED <<mA, mB, mC, prodAB, prodBC, prodA_BC, vvars, mvars>>

\* u = mul(B, C)
ProdRightInner ==
  /\ apc = "BC"
  /\ prodBC' = MulOp(mB, mC)
  /\ apc' = "A_BC"
  /\ UNCHANGED <<mA, mB, mC, prodAB, prodAB_C, prodA_BC, vvars, mvars>>

\* mul(A, u)
ProdRightOuter ==
  /\ apc = "A_BC"
  /\ prodA_BC' = MulOp(mA, prodBC)
  /\ apc' = "done"
  /\ UNCHANGED <<mA, mB, mC, prodAB, prodAB_C, prodBC, vvars, mvars>>

\* ----------------------------------------------------------- specification

\* The operands of main
MainV1 == VectorCtor(<<1, 2, 3>>)

MainV2 == VectorCtor(<<4, 5, 6>>)

\* No Vector program runs
VecIdle ==
  /\ script = "none"
  /\ pc = "idle"
  /\ arg0 = [v1 |-> <<>>, v2 |-> <<>>, v3 |-> <<>>]
  /\ data = [o \in Objs |-> <<>>]
  /\ live = {}
  /\ extended = FALSE
  /\ this = NoObj
  /\ rhsV = NoObj
  /\ ref = NoObj
  /\ iV = 0
  /\ stage = 0
  /\ oob = FALSE
  /\ entryThis = <<>>
  /\ entryRhs = <<>>
  /\ spanLen = 0
  /\ p = 0
  /\ out = <<>>
  /\ exitCode = NoExit

\* mul is not running
MulIdle ==
  /\ mpc = "idle"
  /\ arg1 = [lhs |-> NoMatrix, rhs |-> NoMatrix]
  /\ lhs = NoMatrix
  /\ rhs = NoMatrix
  /\ result = NoMatrix
  /\ ret = NoMatrix
  /\ i = 0
  /\ j = 0
  /\ k = 0
  /\ sum = 0
  /\ acc = {}
  /\ writes = [c \in {} |-> 0]

\* The product harness is not running
ProdIdle ==
  /\ apc = "idle"
  /\ mA = NoMatrix
  /\ mB = NoMatrix
  /\ mC = NoMatrix
  /\ prodAB = NoMatrix
  /\ prodAB_C = NoMatrix
  /\ prodBC = NoMatrix
  /\ prodA_BC = NoMatrix

\* The operands each program constructs: those of main are its literals, the
\* others' are drawn from the vectors of length up to MaxLen (v3 is only
\* used by "chain"; "comm" compares v1 + v2 with v2 + v1, which the source
\* defines for equal lengths only)
HarnessArgs(s) ==
  IF s = "main"
  THEN {[v1 |-> MainV1, v2 |-> MainV2, v3 |-> <<>>]}
  ELSE {[v1 |-> VectorCtor(a), v2 |-> VectorCtor(b), v3 |-> VectorCtor(c)] :
          <<a, b, c>> \in {t \in VecsUpTo(MaxLen) \X VecsUpTo(MaxLen) \X VecsUpTo(MaxLen) :
                             /\ s # "chain" => t[3] = <<>>
                             /\ s = "comm" => Len(t[1]) = Len(t[2])}}

\* The state once the program's Vector objects are constructed
VecInit ==
  /\ script \in {"pluseq", "chain", "plus", "comm", "main"}
  /\ arg0 \in HarnessArgs(script)
  /\ data = [o \in Objs |-> IF o \in DOMAIN arg0 THEN arg0[o] ELSE <<>>]
  /\ live = IF script = "chain" THEN {"v1", "v2", "v3"} ELSE {"v1", "v2"}
  /\ extended \in (IF script = "main" THEN BOOLEAN ELSE {FALSE})
  /\ pc = "start"
  /\ this = NoObj
  /\ rhsV = NoObj
  /\ ref = NoObj
  /\ iV = 0
  /\ stage = 0
  /\ oob = FALSE
  /\ entryThis = <<>>
  /\ entryRhs = <<>>
  /\ spanLen = 0
  /\ p = 0
  /\ out = <<>>
  /\ exitCode = NoExit
  /\ MulIdle
  /\ ProdIdle

VecNext ==
  \/ CallPlusEq
  \/ CallPlusEqChained
  \/ CallPlus
  \/ PlusEqStep
  \/ PlusEqReturn
  \/ PlusReturn
  \/ RangeInit
  \/ PrintElem
  \/ PrintNewline
  \/ MainReturn

VecSpec == VecInit /\ [][VecNext]_vars

\* The shapes of the matrices the harness builds
Shapes == {s \in (0 .. MaxDim) \X (0 .. MaxDim) : s[1] * s[2] <= MaxCells}

\* The matrices the harness builds
AllMatrices == UNION {MatricesOver(s[1], s[2], MatVals) : s \in Shapes}

\* The operands of the worked product
ScenarioLhs == FromRows(<<<<1, 2>>, <<3, 4>>>>)

ScenarioRhs == FromRows(<<<<5, 6>>, <<7, 8>>>>)

\* The arguments mul is called with: every pair of harness matrices, of
\* matching inner dimensions or not, the worked product, and its left
\* operand with the identity
MulArgs ==
  {[lhs |-> l, rhs |-> r] : l \in AllMatrices, r \in AllMatrices}
    \cup {[lhs |-> ScenarioLhs, rhs |-> ScenarioRhs],
          [lhs |-> ScenarioLhs, rhs |-> Identity(GetWidth(ScenarioLhs))]}

\* mul is entered
MulInit ==
  /\ arg1 \in MulArgs
  /\ lhs = arg1.lhs
  /\ rhs = arg1.rhs
  /\ mpc = "construct"
  /\ result = NoMatrix
  /\ ret = NoMatrix
  /\ i = 0
  /\ j = 0
  /\ k = 0
  /\ sum = 0
  /\ acc = {}
  /\ writes = [c \in {} |-> 0]
  /\ VecIdle
  /\ ProdIdle

MulNext ==
  \/ MulConstruct
  \/ OuterTest
  \/ InnerTest
  \/ DotStep
  \/ SetStep
  \/ MulReturn

\* mul runs on one thread that nothing suspends: a step that can be taken is
\* taken
MulSpec == MulInit /\ [][MulNext]_vars /\ WF_vars(MulNext)

\* The triples A (m x k), B (k x n), C (n x p) of harness matrices
\* and one triple of larger entries
ProdArgs ==
  {t \in AllMatrices \X AllMatrices \X AllMatrices :
     /\ GetWidth(t[1]) = GetHeight(t[2])
     /\ GetWidth(t[2]) = GetHeight(t[3])}
    \cup {<<ScenarioLhs, ScenarioRhs, ScenarioLhs>>}

ProdInit ==
  /\ \E t \in ProdArgs :
       /\ mA = t[1]
       /\ mB = t[2]
       /\ mC = t[3]
  /\ apc = "AB"
  /\ prodAB = NoMatrix
  /\ prodAB_C = NoMatrix
  /\ prodBC = NoMatrix
  /\ prodA_BC = NoMatrix
  /\ VecIdle
  /\ MulIdle

ProdNext ==
  \/ ProdLeftInner
  \/ ProdLeftOuter
  \/ ProdRightInner
  \/ ProdRightOuter

ProdSpec == ProdInit /\ [][ProdNext]_vars

\* ------------------------------------------------------------- model checks

\* Every float the programs hold is an integer binary32 represents exactly,
\* so FAdd and FMul are the source's float operations on them
FloatExact ==
  /\ \A o \in Objs : \A n \in DOMAIN data[o] : data[o][n] \in ExactRange
  /\ sum \in ExactRange
  /\ \A M \in {result, ret, prodAB, prodAB_C, prodBC, prodA_BC} :
       \A c \in DOMAIN M.cells : M.cells[c] \in ExactRange

\* The step-by-step mul and the function MulOp return the same Matrix
\* wherever every get of mul is defined
MulOpAgrees ==
  (mpc = "done" /\ GetWidth(arg1.lhs) <= GetHeight(arg1.rhs))
    => ret = MulOp(arg1.lhs, arg1.rhs)

\* ------------------------------------------------------------------ claims

RECURSIVE DotSum(_, _, _, _, _)
\* The sum over k2 in 0 .. n - 1 of l[r, k2] * m[k2, c]
DotSum(l, m, r, c, n) ==
  IF n = 0 THEN 0
  ELSE DotSum(l, m, r, c, n - 1) + l.cells[<<r, n - 1>>] * m.cells[<<n - 1, c>>]

\* mul was called with lhs.width = rhs.height
Matched == GetWidth(arg1.lhs) = GetHeight(arg1.rhs)

\* C1: when mul returns on lhs (m x k) and rhs (k x n), the result has height
\* m and width n, and its cell (r, c) holds the sum over k2 < k of
\* lhs[r, k2] * rhs[k2, c], for every r < m and c < n; and
\* [[1,2],[3,4]] times [[5,6],[7,8]] is [[19,22],[43,50]].
C1_MulComputesProduct ==
  (mpc = "done" /\ Matched) =>
    /\ GetHeight(ret) = GetHeight(arg1.lhs)
    /\ GetWidth(ret) = GetWidth(arg1.rhs)
    /\ DOMAIN ret.cells = Coords(GetHeight(arg1.lhs), GetWidth(arg1.rhs))
    /\ \A c \in Coords(GetHeight(arg1.lhs), GetWidth(arg1.rhs)) :
         ret.cells[c] = DotSum(arg1.lhs, arg1.rhs, c[1], c[2], GetWidth(arg1.lhs))
    /\ (arg1.lhs = ScenarioLhs /\ arg1.rhs = ScenarioRhs)
         => ret = FromRows(<<<<19, 22>>, <<43, 50>>>>)

\* mul has returned the worked product
C1_Witness ==
  /\ mpc = "done"
  /\ arg1.lhs = ScenarioLhs
  /\ arg1.rhs = ScenarioRhs
  /\ ret.cells[<<1, 1>>] = 50

\* C3: mul called with lhs.width # rhs.height fails with DimensionMismatch
\* and never returns a result matrix.
C3_MismatchFails ==
  ~Matched => mpc # "done"

\* C6: when mul returns on A (m x k) and the k x k identity, the result has
\* A's height and width and A's value in every cell.
C6_IdentityRight ==
  (mpc = "done" /\ arg1.rhs = Identity(GetWidth(arg1.lhs))) =>
    /\ GetHeight(ret) = GetHeight(arg1.lhs)
    /\ GetWidth(ret) = GetWidth(arg1.lhs)
    /\ DOMAIN ret.cells = DOMAIN arg1.lhs.cells
    /\ \A c \in DOMAIN arg1.lhs.cells : ret.cells[c] = arg1.lhs.cells[c]

\* mul has returned on a 2 x 2 matrix of four different cells and the
\* 2 x 2 identity
C6_Witness ==
  /\ mpc = "done"
  /\ arg1.lhs = ScenarioLhs
  /\ arg1.rhs = Identity(2)
  /\ ret = ScenarioLhs

\* C7: for A (m x k), B (k x n), C (n x p), mul(mul(A, B), C) and
\* mul(A, mul(B, C)) are both m x p and hold the same value in every cell.
C7_Associative ==
  apc = "done" =>
    /\ GetHeight(prodAB_C) = GetHeight(mA) /\ GetWidth(prodAB_C) = GetWidth(mC)
    /\ GetHeight(prodA_BC) = GetHeight(mA) /\ GetWidth(prodA_BC) = GetWidth(mC)
    /\ DOMAIN prodAB_C.cells = Coords(GetHeight(mA), GetWidth(mC))
    /\ DOMAIN prodA_BC.cells = Coords(GetHeight(mA), GetWidth(mC))
    /\ \A c \in Coords(GetHeight(mA), GetWidth(mC)) :
         prodAB_C.cells[c] = prodA_BC.cells[c]

\* Both products of three 2 x 2 matrices are computed, the factors do not
\* commute, and the product is not zero
C7_Witness ==
  /\ apc = "done"
  /\ GetHeight(mA) = 2 /\ GetWidth(mA) = 2 /\ GetWidth(mB) = 2 /\ GetWidth(mC) = 2
  /\ MulOp(mA, mB) # MulOp(mB, mA)
  /\ \E c \in DOMAIN prodAB_C.cells : prodAB_C.cells[c] > 1

\* Whether an access is inside the matrix it is made on
AccessInBounds(a) ==
  LET M == CASE a.mat = "lhs" -> lhs
             [] a.mat = "rhs" -> rhs
             [] OTHER -> result
  IN  InBounds(M, a.at[1], a.at[2])

\* In every state of a call with lhs.width = rhs.height: the accesses of the
\* last step are in bounds, no access has ended the program, no cell of
\* result has been set twice, and once mul has returned every cell of result
\* has been set once, m * n sets in all.
C9_StepInv ==
  Matched =>
    /\ \A a \in acc : AccessInBounds(a)
    /\ mpc # "crashed"
    /\ \A c \in DOMAIN writes : writes[c] <= 1
    /\ mpc = "done" =>
         /\ DOMAIN writes = Coords(GetHeight(arg1.lhs), GetWidth(arg1.rhs))
         /\ \A c \in DOMAIN writes : writes[c] = 1
         /\ Cardinality({c \in DOMAIN writes : writes[c] = 1})
              = GetHeight(arg1.lhs) * GetWidth(arg1.rhs)

\* No step writes lhs or rhs
C9_Frame == lhs' = lhs /\ rhs' = rhs

\* C9: during mul(lhs, rhs) with lhs.width = rhs.height every get and set is
\* in bounds at every step, each result cell is set exactly once, lhs and rhs
\* are never written, and mul returns, after m * n sets.
C9_MulSafeAndTerminates ==
  /\ []C9_StepInv
  /\ [][C9_Frame]_vars
  /\ <>(Matched => mpc = "done")

\* mul is in its innermost loop, past the first row, column and term, on
\* matching dimensions, and has just read lhs and rhs
C9_Witness ==
  /\ Matched
  /\ mpc = "dot"
  /\ i = 1 /\ j = 1 /\ k = 2
  /\ acc = DotAccesses(1, 1, 1)
  /\ writes[<<0, 1>>] = 1

\* The operands of the st-th operator+ as constructed
PlusOperands(st) == <<arg0[PlusArgs(st)[1]], arg0[PlusArgs(st)[2]]>>

\* C2: for a and b of the same length L (L = 0 included), a + b has length L
\* and its element at every index ix < L is a[ix] + b[ix]; the sum of
\* zero-length operands is zero-length, and [1,2,3] + [4,5,6] is [5,7,9].
C2_PlusIsElementwise ==
  \A st \in {1, 2} :
    LET a == PlusOperands(st)[1]
        b == PlusOperands(st)[2]
        r == data[PlusDest(st)]
    IN  (PlusDest(st) \in live /\ Len(a) = Len(b)) =>
          /\ Len(r) = Len(a)
          /\ \A n \in 1 .. Len(a) : r[n] = a[n] + b[n]
          /\ Len(a) = 0 => r = <<>>
          /\ (a = <<1, 2, 3>> /\ b = <<4, 5, 6>>) => r = <<5, 7, 9>>

\* main holds the value of (1,2,3) + (4,5,6)
C2_Witness ==
  /\ script = "main"
  /\ pc = "range_init"
  /\ "tmp" \in live
  /\ data["tmp"] = <<5, 7, 9>>

\* C4: main writes exactly "5 7 9\n", no separator after the last element,
\* and returns 0.
C4_MainOutput ==
  (script = "main" /\ pc = "done") =>
    /\ out = <<"5", " ", "7", " ", "9", "\n">>
    /\ exitCode = 0

\* The operator+= calls of the program have all returned without reading
\* out of range
ChainDone ==
  /\ script = "chain"
  /\ pc = "done"
  /\ Len(arg0.v2) >= Len(arg0.v1)
  /\ Len(arg0.v3) >= Len(arg0.v1)

\* C5: a + b leaves a and b as they were; a += b changes no object but a and
\* not a's length, and returns a, so that after (a += b) += c the element of
\* a at ix is a[ix] + b[ix] + c[ix].
C5_Frame ==
  /\ script \in {"plus", "comm", "main"} =>
       /\ data["v1"] = arg0.v1
       /\ data["v2"] = arg0.v2
  /\ script \in {"pluseq", "chain"} =>
       /\ data["v2"] = arg0.v2
       /\ data["v3"] = arg0.v3
       /\ Len(data["v1"]) = Len(arg0.v1)
       /\ \A o \in Objs \ {"v1", "v2", "v3"} : data[o] = <<>>
       /\ ref \in {NoObj, "v1"}
       /\ pc \in {"chain2", "done"} => ref = "v1"
  /\ ChainDone =>
       \A n \in 1 .. Len(arg0.v1) :
         data["v1"][n] = (arg0.v1[n] + arg0.v2[n]) + arg0.v3[n]

\* (a += b) += c has run on three vectors of two elements
C5_Witness ==
  /\ ChainDone
  /\ Len(arg0.v1) = 2 /\ Len(arg0.v2) = 2 /\ Len(arg0.v3) = 2
  /\ data["v1"] # arg0.v1
  /\ ref = "v1"

\* C8: for a and b of equal length, a + b and b + a have the same length and
\* the same element at every index.
C8_PlusCommutes ==
  (script = "comm" /\ pc = "done") =>
    /\ Len(data["tmp"]) = Len(data["tmp2"])
    /\ \A n \in 1 .. Len(data["tmp"]) : data["tmp"][n] = data["tmp2"][n]

\* a + b and b + a are both computed, for different a and b of two elements
\* or more
C8_Witness ==
  /\ script = "comm"
  /\ pc = "done"
  /\ Len(arg0.v1) >= 2
  /\ arg0.v1 # arg0.v2
  /\ data["tmp"] # <<>>

\* The running or just returned operator+= call, if there is one
InPlusEq == pc \in {"loop", "crashed"}

PlusEqReturned ==
  \/ pc \in {"plus_ret", "chain2"}
  \/ pc = "done" /\ script \in {"pluseq", "chain"}

\* C10: a += b with length(b) >= length(a) reads nothing out of range, ends
\* normally, keeps a's length and sets a[ix] to a[ix] + b[ix] for every index
\* of a (the further elements of b are not used); and a call reads b out of
\* range exactly when length(b) < length(a).
C10_PlusEqWithinThis ==
  (InPlusEq \/ PlusEqReturned) =>
    LET a == entryThis
        b == entryRhs
        d == data[this]
    IN  /\ Len(b) >= Len(a) =>
             /\ ~oob
             /\ pc # "crashed"
             /\ Len(d) = Len(a)
             /\ \A n \in 1 .. Len(a) :
                  d[n] = IF n <= iV THEN a[n] + b[n] ELSE a[n]
             /\ PlusEqReturned => iV = Len(a)
        /\ oob => Len(b) < Len(a)
        /\ (PlusEqReturned \/ pc = "crashed") => (oob <=> Len(b) < Len(a))

\* a += b has returned on a of two elements and b of three
C10_Witness ==
  /\ script = "pluseq"
  /\ pc = "done"
  /\ Len(arg0.v1) = 2
  /\ Len(arg0.v2) = 3
  /\ ~oob
  /\ data["v1"] # arg0.v1

====
